---- MODULE Spec2Model ----
(***************************************************************************)
(* Model of net/instaweb/automatic/cache_html_flow.cc: the CacheHtmlFlow   *)
(* controller, the CacheHtmlComputationFetch background consumer with its  *)
(* Finish() rendezvous, and the AsyncFetchWithHeadersInhibited relay.      *)
(*                                                                         *)
(* HTML is a sequence of tokens:                                           *)
(*   "w" whitespace, "x" text that does not start with '<',                *)
(*   "t" "u" "v" cacheable elements with visible text ("t" and "u" differ  *)
(*   only in a detail the smart-diff extraction ignores), "n" a            *)
(*   non-cacheable element, "c" a comment, "m" an element whose text       *)
(*   contains the visible-text end marker.                                 *)
(***************************************************************************)
EXTENDS Integers, Sequences, FiniteSets, TLC

Reqs == {"r1", "r2"}

\* ---- bounds of the model ------------------------------------------------
MaxTime == 2
MaxChunk == 2
HashMod == 4

\* ---- configuration values ------------------------------------------------
\* options_->blink_max_html_size_rewritable()
MaxHtmlSize == 2
\* options_->GetBlinkCacheTimeFor(google_url_)
BlinkCacheTime == 1

\* Bodies the origin may answer with.
Bodies ==
  { <<"t">>, <<"w", "u">>, <<"v", "n">>, <<"n">>, <<"w", "x">>,
    <<"t", "c", "t", "t">>, <<"m">> }

Charsets == {"", "utf-8"}

\* ---- sequences ------------------------------------------------------------
RECURSIVE SumSeq(_)
SumSeq(s) == IF s = <<>> THEN 0 ELSE Head(s) + SumSeq(Tail(s))

Range(s) == { s[i] : i \in 1..Len(s) }

\* ---- external collaborators, at their interface ---------------------------
Weight(tok) ==
  CASE tok = "t" -> 1
    [] tok = "u" -> 2
    [] tok = "v" -> 3
    [] OTHER -> 0

\* server_context_->hasher()->Hash(text): a fixed-size digest, never empty.
\* The empty GoogleString (no hash computed) is 0.
Hash(text) == 1 + (SumSeq([i \in 1..Len(text) |-> Weight(text[i])]) % HashMod)

NoHash == 0

\* Output of a driver with only kStripNonCacheable enabled.
IsCacheable(tok) == tok # "n"

StripNonCacheable(buf) == SelectSeq(buf, IsCacheable)

\* Output of a driver with kRemoveComments, kStripNonCacheable and
\* kComputeVisibleText: the smart-diff segment, the end marker "|", the full
\* segment.  Text that itself holds the marker shows as one more "|".
IsVisible(tok) == tok \in {"t", "u", "v", "m"}

Shown(tok) == IF tok = "m" THEN "|" ELSE tok

Coarse(tok) == IF tok = "u" THEN "t" ELSE tok

FullText(buf) ==
  LET seen == SelectSeq(buf, IsVisible)
  IN [i \in 1..Len(seen) |-> Shown(seen[i])]

SmartText(buf) ==
  LET full == FullText(buf)
  IN [i \in 1..Len(full) |-> Coarse(full[i])]

ComputeVisibleText(buf) == SmartText(buf) \o <<"|">> \o FullText(buf)

\* SplitStringUsingSubstr(output, kComputeVisibleTextFilterOutputEndMarker)
RECURSIVE SplitFrom(_, _)
SplitFrom(piece, rest) ==
  IF rest = <<>> THEN <<piece>>
  ELSE IF Head(rest) = "|" THEN <<piece>> \o SplitFrom(<<>>, Tail(rest))
  ELSE SplitFrom(Append(piece, Head(rest)), Tail(rest))

SplitStringUsingSubstr(output) == SplitFrom(<<>>, output)

\* HtmlDetector: undecided while it has only seen whitespace, which it keeps;
\* the first other byte decides, '<' meaning HTML.
IsSpace(tok) == tok = "w"

IsNotSpace(tok) == tok # "w"

NewDetector == [decided |-> FALSE, probable |-> FALSE, buffered |-> <<>>]

AllSpace(content) == SelectSeq(content, IsNotSpace) = <<>>

FirstNonSpace(content) == Head(SelectSeq(content, IsNotSpace))

ConsiderInput(det, content) ==
  IF AllSpace(content)
    THEN [det EXCEPT !.buffered = @ \o content]
    ELSE [det EXCEPT !.decided = TRUE, !.probable = FirstNonSpace(content) # "x"]

\* ---- CacheHtmlInfo (protocol buffer) --------------------------------------
EmptyInfo ==
  [has_cached_html |-> FALSE, cached_html |-> <<>>,
   has_charset |-> FALSE, charset |-> "",
   hash |-> NoHash, hash_smart_diff |-> NoHash,
   last_ms |-> 0]

\* A serialized field: tag, and its payload as text, string or number.
Field(tag, txt, str, num) == [tag |-> tag, txt |-> txt, str |-> str, num |-> num]

SerializeToString(info) ==
  (IF info.has_cached_html THEN <<Field(1, info.cached_html, "", 0)>> ELSE <<>>)
  \o <<Field(2, <<>>, "", info.last_ms)>>
  \o <<Field(3, <<>>, "", info.hash)>>
  \o <<Field(4, <<>>, "", info.hash_smart_diff)>>
  \o (IF info.has_charset THEN <<Field(5, <<>>, info.charset, 0)>> ELSE <<>>)

MergeField(info, f) ==
  CASE f.tag = 1 -> [info EXCEPT !.has_cached_html = TRUE, !.cached_html = f.txt]
    [] f.tag = 2 -> [info EXCEPT !.last_ms = f.num]
    [] f.tag = 3 -> [info EXCEPT !.hash = f.num]
    [] f.tag = 4 -> [info EXCEPT !.hash_smart_diff = f.num]
    [] f.tag = 5 -> [info EXCEPT !.has_charset = TRUE, !.charset = f.str]
    [] OTHER -> info

\* Parsing merges field after field and stops at the first malformed one
\* (tag 0), leaving what it has merged so far.
RECURSIVE ParseFields(_, _)
ParseFields(info, blob) ==
  IF blob = <<>> THEN [ok |-> TRUE, info |-> info]
  ELSE IF Head(blob).tag = 0 THEN [ok |-> FALSE, info |-> info]
  ELSE ParseFields(MergeField(info, Head(blob)), Tail(blob))

ParseFromZeroCopyStream(blob) == ParseFields(EmptyInfo, blob)

\* ---- the property store ----------------------------------------------------
\* A PropertyValue: has_value() and value().
NoValue == [has_value |-> FALSE, value |-> <<>>]

Value(blob) == [has_value |-> TRUE, value |-> blob]

\* A record as the plain computation leaves it in the store: the rewritten
\* body, the hashes the diff computed when change detection is on.
ComputedInfo(body, withHashes, charset, ms) ==
  [has_cached_html |-> TRUE, cached_html |-> StripNonCacheable(body),
   has_charset |-> TRUE, charset |-> charset,
   hash |-> IF withHashes THEN Hash(FullText(body)) ELSE NoHash,
   hash_smart_diff |-> IF withHashes THEN Hash(SmartText(body)) ELSE NoHash,
   last_ms |-> ms]

\* ---- state -------------------------------------------------------------------
VARIABLES
  workload,      \* which requests arrive, and what the origin may answer
  now,           \* server_context_->timer()->NowMs()
  opts,          \* RewriteOptions of the requests
  request_headers, \* per request: base_fetch_->request_headers()
  store,         \* the property cache: the persisted value of the blink cohort
  sink,          \* per request, in order: what reached its client sink
  log,           \* per request, in order: what it read from and sent to the
                 \* store, what its consumer launched, who called Finish()
  flow,          \* per request: where its CacheHtmlFlow is
  info,          \* per request: CacheHtmlFlow::cache_html_info_
  page,          \* per request: the PropertyPage's value of the property
  flushed,       \* per request: rewrite_driver_->flushed_cached_html()
  async_events,  \* per request: rewrite_driver_'s async events count
  px,            \* per request: the ProxyFetch started by StartNewProxyFetch
  cf,            \* per request: its CacheHtmlComputationFetch
  fin,           \* per request: where each caller of Finish() is
  stats          \* per request: what it added to the statistics

vars ==
  <<workload, now, opts, request_headers, store, sink, log, flow, info, page, flushed, async_events, px, cf, fin,
    stats>>

Ev(r, ev, val, txt) == [r |-> r, ev |-> ev, val |-> val, txt |-> txt]

\* One Write(), Flush(), HeadersComplete() or Done() on the client sink.
Out(ev, txt) == [ev |-> ev, txt |-> txt]

Sent(r, ev) == \E i \in 1..Len(sink[r]) : sink[r][i].ev = ev

Logged(r, ev) == \E i \in 1..Len(log[r]) : log[r][i].ev = ev

Count(r, ev) == Cardinality({ i \in 1..Len(log[r]) : log[r][i].ev = ev })

\* Where the first such event is; 0 when there is none.
Pos(r, ev) ==
  IF Logged(r, ev) THEN CHOOSE i \in 1..Len(log[r]) :
                          /\ log[r][i].ev = ev
                          /\ \A j \in 1..(i - 1) : log[r][j].ev # ev
  ELSE 0

NoStats ==
  [hits |-> 0, misses |-> 0, matches |-> 0, mismatches |-> 0,
   smart_diff_matches |-> 0, smart_diff_mismatches |-> 0, cache_deletes |-> 0]

NoFetch == [st |-> "none", body |-> <<>>, sink |-> "none", client |-> "none"]

NoConsumer ==
  [st |-> "none",
   claims_html |-> FALSE, probable_html |-> FALSE,
   content_length_over_threshold |-> FALSE, non_ok_status_code |-> FALSE,
   html_detector |-> NewDetector, buffer |-> <<>>, value |-> <<>>,
   charset |-> "",
   computed_hash |-> NoHash, computed_hash_smart_diff |-> NoHash,
   cache_html_info |-> EmptyInfo,
   mutex |-> "free", finish |-> FALSE,
   task |-> "none"]

NoFinish == [relay |-> "no", consumer |-> "no"]

Options == [detect : BOOLEAN, logging : BOOLEAN, smart_diff : BOOLEAN]

InitialStores(o) ==
  {NoValue,
   Value(SerializeToString(ComputedInfo(<<"t">>, o.detect \/ o.logging, "utf-8", 0)))}

Quiet ==
  /\ now = 0
  /\ request_headers = [r \in Reqs |-> {}]
  /\ sink = [r \in Reqs |-> <<>>]
  /\ log = [r \in Reqs |-> <<>>]
  /\ flow = [r \in Reqs |-> "idle"]
  /\ info = [r \in Reqs |-> EmptyInfo]
  /\ page = [r \in Reqs |-> NoValue]
  /\ flushed = [r \in Reqs |-> FALSE]
  /\ async_events = [r \in Reqs |-> 0]
  /\ px = [r \in Reqs |-> NoFetch]
  /\ cf = [r \in Reqs |-> NoConsumer]
  /\ fin = [r \in Reqs |-> NoFinish]
  /\ stats = [r \in Reqs |-> NoStats]

\* One request, under any options, against an empty store or a stored record;
\* the origin answers with any of HeaderChoices.
Init ==
  /\ workload = "single"
  /\ opts \in Options
  /\ store \in InitialStores(opts)
  /\ Quiet

\* Successive requests for the URL under active change detection, the first
\* one finding a stored record; the origin answers 200 with HTML.
InitSuccessive ==
  /\ workload = "successive"
  /\ opts \in {o \in Options : o.detect /\ ~o.logging}
  /\ store \in InitialStores(opts) \ {NoValue}
  /\ Quiet

\* Successive requests for the URL, under any options, the first one finding
\* the store empty; the origin answers 200 with HTML.
InitFromEmpty ==
  /\ workload = "successive"
  /\ opts \in Options
  /\ store = NoValue
  /\ Quiet

\* Two requests for the URL at the same time, under change detection, live or
\* logging-only, against a stored record; the origin answers 200 with HTML.
InitConcurrent ==
  /\ workload = "concurrent"
  /\ opts \in {o \in Options : o.detect # o.logging /\ ~o.smart_diff}
  /\ store \in InitialStores(opts) \ {NoValue}
  /\ Quiet

\* Values of the property this code never writes, left in the store by
\* corruption or by another writer: a record followed by bytes that do not
\* parse, a record whose cached_html is present and empty, a record without
\* cached_html.
ForeignStores ==
  LET rec == ComputedInfo(<<"t">>, TRUE, "utf-8", 0)
  IN { Value(SerializeToString(rec) \o <<Field(0, <<>>, "", 0)>>),
       Value(SerializeToString([rec EXCEPT !.cached_html = <<>>])),
       Value(SerializeToString([rec EXCEPT !.has_cached_html = FALSE,
                                           !.cached_html = <<>>])) }

\* One request, under any options, against a store holding such a value.
InitForeign ==
  /\ workload = "foreign"
  /\ opts \in Options
  /\ store \in ForeignStores
  /\ Quiet

\* The timer advances.
Tick ==
  /\ now < MaxTime
  /\ now' = now + 1
  /\ UNCHANGED <<workload, opts, request_headers, store, sink, log, flow, info, page, flushed, async_events,
                 px, cf, fin, stats>>

\* ---- CacheHtmlFlow --------------------------------------------------------------
\* Requests for the URL come one after the other: the next one arrives when
\* the one before has been answered and its consumer, if it still exists, has
\* nothing left to do but a plain computation.
Answered(r) ==
  /\ flow[r] = "gone"
  /\ px[r].st \in {"none", "ended"}
  /\ px[r].client \in {"none", "done"}
  /\ fin[r].relay \in {"no", "returned"}
  /\ fin[r].consumer \in {"no", "returned"}
  /\ cf[r].task \in {"none", "plain", "plain_parsed"}

\* Of two requests at the same time, "r1" names the one whose lookup task runs
\* first.
MayArrive(r) ==
  \/ r = "r1"
  \/ workload = "successive" /\ Answered("r1")
  \/ workload = "concurrent" /\ flow["r1"] \notin {"idle", "lookup"}

\* The request headers a client may send.
RequestHeaderChoices ==
  IF workload \in {"successive", "concurrent"} THEN {{}}
  ELSE {{}, {"If-None-Match"}, {"If-Modified-Since", "Accept"},
        {"If-None-Match", "If-Modified-Since"}}

Start(r) ==
  /\ flow[r] = "idle"
  /\ MayArrive(r)
  /\ flow' = [flow EXCEPT ![r] = "lookup"]
  /\ \E sent \in RequestHeaderChoices :
       request_headers' = [request_headers EXCEPT ![r] = sent]
  /\ UNCHANGED <<workload, now, opts, store, sink, log, info, page, flushed, async_events, px, cf,
                 fin, stats>>

\* A lookup that keeps records of any age.
Expired_never(i) == FALSE

\* A lookup that drops records of any age.
Expired_always(i) == TRUE

\* A lookup that drops a record on the last millisecond of its TTL.
Expired_at_ttl(i) == now >= i.last_ms + BlinkCacheTime

\* NowMs() > expiration_time_ms
Expired(i) == now > i.last_ms + BlinkCacheTime

\* A lookup that leaves the record as the parser left it.
Clear_nothing(i) == i

\* cache_html_info_.Clear()
Clear(i) == EmptyInfo

PopulateCacheHtmlInfo(pv) ==
  IF ~pv.has_value THEN EmptyInfo
  ELSE LET parsed == ParseFromZeroCopyStream(pv.value)
       IN IF ~parsed.ok THEN Clear(parsed.info)
          ELSE IF ~opts.detect /\ Expired(parsed.info) THEN Clear(parsed.info)
          ELSE parsed.info

\* For the history: what the lookup found, by the record's age.
Found(pv) ==
  IF ~pv.has_value THEN "absent"
  ELSE IF ~ParseFromZeroCopyStream(pv.value).ok THEN "malformed"
  ELSE IF now - ParseFromZeroCopyStream(pv.value).info.last_ms > BlinkCacheTime
    THEN "expired"
  ELSE "fresh"

\* A TriggerProxyFetch that arms a consumer for every request.
NeedsConsumer_always(flushed_cached_html) == TRUE

\* What TriggerProxyFetch leaves behind, given the flow's record and whether
\* cached HTML was flushed.
NeedsConsumer(flushed_cached_html) ==
  ~flushed_cached_html \/ opts.detect \/ opts.logging

NewConsumer(i) == [NoConsumer EXCEPT !.st = "alive", !.cache_html_info = i]

\* A flow that strips the entity tag condition only.
Conditional_etag_only == {"If-None-Match"}

\* The headers TriggerProxyFetch removes: kIfNoneMatch, kIfModifiedSince.
Conditional == {"If-None-Match", "If-Modified-Since"}

\* request_headers()->RemoveAll(name), for each of the names.
RemoveAll(headers, names) == headers \ names

TriggerProxyFetch(r, i, flushed_cached_html, sofar) ==
  /\ request_headers' = [request_headers EXCEPT ![r] = RemoveAll(@, Conditional)]
  /\ cf' = [cf EXCEPT ![r] =
              IF NeedsConsumer(flushed_cached_html) THEN NewConsumer(i) ELSE @]
  /\ async_events' = [async_events EXCEPT ![r] =
              IF NeedsConsumer(flushed_cached_html) THEN @ + 1 ELSE @]
  /\ px' = [px EXCEPT ![r] =
              [st |-> "headers", body |-> <<>>,
               sink |-> IF flushed_cached_html THEN "relay" ELSE "base",
               client |-> "headers"]]
  /\ log' = [log EXCEPT ![r] = sofar \o <<Ev(r, "dispatch", <<>>, <<>>)>>]
  /\ flow' = [flow EXCEPT ![r] = "gone"]

\* A Cancel that falls back to fetching from the origin.
Cancel_dispatching(r) ==
  /\ flow[r] = "lookup"
  /\ TriggerProxyFetch(r, info[r], flushed[r], log[r])
  /\ UNCHANGED <<workload, now, opts, store, sink, info, page, flushed, fin, stats>>

\* Cancel(): delete this.
Cancel(r) ==
  /\ flow[r] = "lookup"
  /\ flow' = [flow EXCEPT ![r] = "gone"]
  /\ UNCHANGED <<workload, now, opts, request_headers, store, sink, log, info, page, flushed, async_events, px, cf,
                 fin, stats>>

\* Status and Content-Type of the response on a hit.
HitHeaders(i) ==
  IF i.has_charset THEN <<"200", "text/html", i.charset>> ELSE <<"200", "text/html">>

CacheHtmlMiss(r, i, read) ==
  /\ stats' = [stats EXCEPT ![r].misses = @ + 1]
  /\ TriggerProxyFetch(r, i, flushed[r], read)
  /\ UNCHANGED sink

\* A CacheHtmlHit that goes to the origin without waiting for the replay.
CacheHtmlHit_dispatching(r, i, read) ==
  /\ stats' = [stats EXCEPT ![r].hits = @ + 1]
  /\ sink' = [sink EXCEPT ![r] = @ \o <<Out("headers", HitHeaders(i))>>]
  /\ TriggerProxyFetch(r, i, flushed[r], read)

\* CacheHtmlHit: the headers go out, the cloned driver starts on the cached
\* HTML with CacheHtmlRewriteDone as its continuation.
CacheHtmlHit(r, i, read) ==
  /\ stats' = [stats EXCEPT ![r].hits = @ + 1]
  /\ sink' = [sink EXCEPT ![r] = @ \o <<Out("headers", HitHeaders(i))>>]
  /\ log' = [log EXCEPT ![r] = read]
  /\ flow' = [flow EXCEPT ![r] = "replay"]
  /\ UNCHANGED <<request_headers, async_events, px, cf>>

CacheHtmlLookupDone(r) ==
  /\ flow[r] = "lookup"
  /\ LET pv == store
         i == PopulateCacheHtmlInfo(pv)
         read == log[r] \o <<Ev(r, "read", pv.value, <<Found(pv)>>)>>
     IN /\ page' = [page EXCEPT ![r] = pv]
        /\ info' = [info EXCEPT ![r] = i]
        /\ IF i.has_cached_html
             THEN CacheHtmlHit(r, i, read)
             ELSE CacheHtmlMiss(r, i, read)
  /\ UNCHANGED <<workload, now, opts, store, flushed, fin>>

\* The cloned driver finishes parsing the cached HTML and has written it to
\* the client sink.
FinishParseCachedHtml(r) ==
  /\ flow[r] = "replay"
  /\ sink' = [sink EXCEPT ![r] = @ \o <<Out("html", info[r].cached_html)>>]
  /\ flow' = [flow EXCEPT ![r] = "replayed"]
  /\ UNCHANGED <<workload, now, opts, request_headers, store, log, info, page, flushed, async_events, px, cf, fin,
                 stats>>

CacheHtmlRewriteDone(r) ==
  /\ flow[r] = "replayed"
  /\ flushed' = [flushed EXCEPT ![r] = TRUE]
  /\ sink' = [sink EXCEPT ![r] =
       @ \o <<Out("blink_js", <<>>), Out("suffix_js", <<>>), Out("sink_flush", <<>>)>>]
  /\ TriggerProxyFetch(r, info[r], TRUE, log[r])
  /\ UNCHANGED <<workload, now, opts, store, info, page, fin, stats>>

\* ---- CacheHtmlComputationFetch ---------------------------------------------------
Deleted == [NoConsumer EXCEPT !.st = "deleted"]

HtmlBodies == { <<"t">>, <<"w", "u">>, <<"v", "n">>, <<"n">> }

ShortBodies == { <<"t">>, <<"v">> }

HeaderChoices ==
  IF workload = "successive"
    THEN [ok : {TRUE}, html_like : {TRUE}, length_found : {FALSE},
          charset : {"utf-8"}, body : HtmlBodies]
  ELSE IF workload = "concurrent"
    THEN [ok : {TRUE}, html_like : {TRUE}, length_found : {FALSE},
          charset : {"utf-8"}, body : ShortBodies]
  ELSE
  [ok : {TRUE}, html_like : {TRUE}, length_found : BOOLEAN, charset : Charsets,
   body : Bodies]
  \cup [ok : {TRUE}, html_like : {FALSE}, length_found : {FALSE}, charset : {""},
        body : {<<"t">>}]
  \cup [ok : {FALSE}, html_like : {TRUE}, length_found : {FALSE}, charset : {""},
        body : {<<"t">>}]

\* For the history: the over-threshold flag has just been set, with this
\* much of the body still to come.
Crossed(r, c, rest) ==
  IF c.content_length_over_threshold /\ ~cf[r].content_length_over_threshold
    THEN <<Ev(r, "over_threshold", <<>>, rest)>>
    ELSE <<>>

\* For the history: the charset of the response headers the consumer got.
Received(r, h) ==
  IF cf[r].st = "alive" THEN <<Ev(r, "response", <<>>, <<h.charset>>)>> ELSE <<>>

\* The origin's response headers arrive.
HandleHeadersComplete(r) ==
  /\ px[r].st = "headers"
  /\ \E h \in HeaderChoices :
       /\ px' = [px EXCEPT ![r].st = "body", ![r].body = h.body]
       /\ cf' = [cf EXCEPT ![r] =
            IF @.st # "alive" THEN @
            ELSE IF h.ok
              THEN [@ EXCEPT
                      !.claims_html = h.html_like,
                      !.charset = h.charset,
                      !.content_length_over_threshold =
                         h.length_found /\ Len(h.body) > MaxHtmlSize]
              ELSE [@ EXCEPT !.non_ok_status_code = TRUE]]
       /\ log' = [log EXCEPT ![r] =
                    @ \o Received(r, h) \o Crossed(r, cf'[r], px'[r].body)]
  /\ UNCHANGED <<workload, now, opts, request_headers, store, sink, flow, info, page, flushed, async_events, fin,
                 stats>>

\* A test that forgets what is buffered already.
ExceedsThreshold_chunk_only(buffer, content) == Len(content) > MaxHtmlSize

\* unsigned(buffer_.size() + content.size()) > blink_max_html_size_rewritable()
ExceedsThreshold(buffer, content) == Len(buffer) + Len(content) > MaxHtmlSize

\* HandleWrite's effect on the consumer, for one chunk.
WriteChunk(c, content) ==
  IF ~c.claims_html \/ c.content_length_over_threshold THEN c
  ELSE
    LET decides == ~c.html_detector.decided /\ ~AllSpace(content)
        det == IF c.html_detector.decided THEN c.html_detector
               ELSE ConsiderInput(c.html_detector, content)
        released == decides /\ det.probable
        probable == c.probable_html \/ released
        buf == IF released THEN c.buffer \o det.buffered ELSE c.buffer
        det2 == IF released THEN [det EXCEPT !.buffered = <<>>] ELSE det
    IN IF ~probable
         THEN [c EXCEPT !.html_detector = det2]
         ELSE IF ExceedsThreshold(buf, content)
           THEN [c EXCEPT !.html_detector = det2, !.probable_html = TRUE,
                          !.content_length_over_threshold = TRUE,
                          !.buffer = <<>>]
           ELSE [c EXCEPT !.html_detector = det2, !.probable_html = TRUE,
                          !.buffer = buf \o content]

Min(a, b) == IF a < b THEN a ELSE b

HandleWrite(r) ==
  /\ px[r].st = "body"
  /\ px[r].body # <<>>
  /\ \E k \in 1..Min(MaxChunk, Len(px[r].body)) :
       /\ px' = [px EXCEPT ![r].body = SubSeq(@, k + 1, Len(@))]
       /\ cf' = [cf EXCEPT ![r] =
            IF @.st = "alive" THEN WriteChunk(@, SubSeq(px[r].body, 1, k)) ELSE @]
       /\ log' = [log EXCEPT ![r] = @ \o Crossed(r, cf'[r], px'[r].body)]
  /\ UNCHANGED <<workload, now, opts, request_headers, store, sink, flow, info, page, flushed, async_events, fin,
                 stats>>

\* A stream end that launches a computation whatever the size.
Ineligible_size_unchecked(c, success) ==
  \/ c.non_ok_status_code
  \/ ~success
  \/ ~c.claims_html
  \/ ~c.probable_html

Ineligible(c, success) ==
  \/ c.non_ok_status_code
  \/ ~success
  \/ ~c.claims_html
  \/ ~c.probable_html
  \/ c.content_length_over_threshold

\* For the history: how the stream ended, as the consumer saw it.
Ended(r, c, success) ==
  Ev(r, "stream_end", <<>>,
     (IF success THEN <<>> ELSE <<"failed">>)
     \o (IF c.non_ok_status_code THEN <<"non_ok">> ELSE <<>>)
     \o (IF c.claims_html /\ c.probable_html THEN <<>> ELSE <<"not_html">>)
     \o (IF c.content_length_over_threshold THEN <<"over">> ELSE <<>>))

\* A stream end that deletes the consumer whatever its record holds.
HasCachedHtml_unset(c) == FALSE

\* cache_html_info_->has_cached_html(): the consumer serves a cache hit.
HasCachedHtml(c) == c.cache_html_info.has_cached_html

\* A stream end that takes logging-only detection for no detection.
DiffEnabled_live_only == opts.detect

\* enable_blink_html_change_detection() ||
\* enable_blink_html_change_detection_logging(), as HandleDone tests it.
DiffEnabled == opts.detect \/ opts.logging

\* The origin stream ends: with success once the whole body is delivered,
\* with failure at any time.
HandleDone(r) ==
  /\ px[r].st \in {"headers", "body"}
  /\ \E success \in BOOLEAN :
       /\ success => px[r].st = "body" /\ px[r].body = <<>>
       /\ px' = [px EXCEPT ![r].st = "ended", ![r].body = <<>>]
       /\ LET ended == log[r] \o <<Ended(r, cf[r], success)>>
          IN
          IF cf[r].st # "alive"
            THEN UNCHANGED <<cf, fin, log, async_events>>
          ELSE IF Ineligible(cf[r], success)
            THEN IF HasCachedHtml(cf[r])
                   THEN /\ fin' = [fin EXCEPT ![r].consumer = "want"]
                        /\ log' = [log EXCEPT ![r] = ended]
                        /\ UNCHANGED <<cf, async_events>>
                   ELSE /\ cf' = [cf EXCEPT ![r] = Deleted]
                        /\ async_events' = [async_events EXCEPT ![r] = @ - 1]
                        /\ log' = [log EXCEPT ![r] =
                                     ended \o <<Ev(r, "destroy", <<>>, <<>>)>>]
                        /\ UNCHANGED fin
          ELSE IF DiffEnabled
            THEN /\ cf' = [cf EXCEPT ![r].task = "diff", ![r].value = <<>>]
                 /\ log' = [log EXCEPT ![r] =
                              ended \o <<Ev(r, "launch_diff", <<>>, cf[r].buffer)>>]
                 /\ UNCHANGED <<fin, async_events>>
            ELSE /\ cf' = [cf EXCEPT ![r].task = "plain", ![r].value = <<>>]
                 /\ log' = [log EXCEPT ![r] =
                              ended \o <<Ev(r, "launch_plain", <<>>, cf[r].buffer)>>]
                 /\ UNCHANGED <<fin, async_events>>
  /\ UNCHANGED <<workload, now, opts, request_headers, store, sink, flow, info, page, flushed, stats>>

\* The low-priority task runs: Parse() feeds the buffer to the driver.
Parse(r) ==
  /\ cf[r].st = "alive"
  /\ cf[r].task \in {"diff", "plain"}
  /\ cf' = [cf EXCEPT
       ![r].task = IF @ = "diff" THEN "diff_parsed" ELSE "plain_parsed",
       ![r].value = IF cf[r].task = "diff"
                      THEN ComputeVisibleText(StripNonCacheable(cf[r].buffer))
                      ELSE StripNonCacheable(cf[r].buffer)]
  /\ UNCHANGED <<workload, now, opts, request_headers, store, sink, log, flow, info, page, flushed, async_events, px,
                 fin, stats>>

\* ---- writes to the property cache ---------------------------------------------
\* PropertyCache::WriteCohort: the page's value replaces the persisted one.
WriteCohort(persisted, pv) == pv

\* The record UpdatePropertyCacheWithCacheHtmlInfo serializes.
UpdatedInfo(c) ==
  [c.cache_html_info EXCEPT
     !.has_charset = TRUE, !.charset = c.charset,
     !.hash = c.computed_hash,
     !.hash_smart_diff = c.computed_hash_smart_diff]

\* UpdatePropertyCacheWithCacheHtmlInfo for consumer c, then "delete this".
UpdatePropertyCacheWithCacheHtmlInfo(r, c, sofar) ==
  LET buf == SerializeToString(UpdatedInfo(c))
  IN /\ page' = [page EXCEPT ![r] = Value(buf)]
     /\ store' = WriteCohort(store, Value(buf))
     /\ log' = [log EXCEPT ![r] =
                  sofar \o <<Ev(r, "update", buf, <<now>>), Ev(r, "flush", buf, <<>>),
                             Ev(r, "destroy", <<>>, <<>>)>>]

DeleteThis(r, sofar) ==
  /\ log' = [log EXCEPT ![r] = sofar \o <<Ev(r, "destroy", <<>>, <<>>)>>]
  /\ UNCHANGED <<page, store>>

\* A plain computation that persists whatever it computed.
Persistable_always(c, html) == TRUE

\* Whether the plain computation persists its record.
Persistable(c, html) == html # <<>> /\ ~c.content_length_over_threshold

CompleteFinishParseForCacheHtmlComputationDriver(r) ==
  /\ cf[r].st = "alive"
  /\ cf[r].task = "plain_parsed"
  /\ LET c == [cf[r] EXCEPT
                 !.cache_html_info.has_cached_html = TRUE,
                 !.cache_html_info.cached_html = cf[r].value,
                 !.cache_html_info.last_ms = now]
         done == log[r] \o <<Ev(r, "plain_done", <<>>, cf[r].value)>>
     IN IF Persistable(c, c.cache_html_info.cached_html)
          THEN UpdatePropertyCacheWithCacheHtmlInfo(r, c, done)
          ELSE DeleteThis(r, done)
  /\ cf' = [cf EXCEPT ![r] = Deleted]
  /\ async_events' = [async_events EXCEPT ![r] = @ - 1]
  /\ UNCHANGED <<workload, now, opts, request_headers, sink, flow, info, flushed, px, fin, stats>>

\* The task queue sheds the plain computation.
CancelParseForCacheHtmlComputationDriver(r) ==
  /\ cf[r].st = "alive"
  /\ cf[r].task = "plain"
  /\ cf' = [cf EXCEPT ![r] = Deleted]
  /\ async_events' = [async_events EXCEPT ![r] = @ - 1]
  /\ DeleteThis(r, log[r])
  /\ UNCHANGED <<workload, now, opts, request_headers, sink, flow, info, flushed, px, fin, stats>>

\* The task queue sheds the diff computation.
CancelParseForHtmlChangeDriver(r) ==
  /\ cf[r].st = "alive"
  /\ cf[r].task = "diff"
  /\ cf' = [cf EXCEPT ![r].task = "none"]
  /\ fin' = [fin EXCEPT ![r].consumer = "want"]
  /\ log' = [log EXCEPT ![r] = @ \o <<Ev(r, "diff_shed", <<>>, <<>>)>>]
  /\ UNCHANGED <<workload, now, opts, request_headers, store, sink, flow, info, page, flushed, async_events, px,
                 stats>>

\* For the history: the hashes the diff computation ended with.
\* A comparison that takes a hash that was not computed for a match.
Differs_if_computed(computed, stored) == computed # NoHash /\ computed # stored

\* computed_hash_ != cache_html_info_->hash(), and the same for the smart
\* diff hash: inequality of two strings.
Differs(computed, stored) == computed # stored

Computed(full, smart) == <<Field(3, <<>>, "", full), Field(4, <<>>, "", smart)>>

CompleteFinishParseForHtmlChangeDriver(r) ==
  /\ cf[r].st = "alive"
  /\ cf[r].task = "diff_parsed"
  /\ LET result == SplitStringUsingSubstr(cf[r].value)
         smart == IF Len(result) = 2 THEN Hash(result[1])
                  ELSE cf[r].computed_hash_smart_diff
         full == IF Len(result) = 2 THEN Hash(result[2]) ELSE cf[r].computed_hash
         prior == cf[r].cache_html_info
     IN IF ~prior.has_cached_html
          THEN /\ cf' = [cf EXCEPT ![r].computed_hash = full,
                                   ![r].computed_hash_smart_diff = smart,
                                   ![r].task = "plain", ![r].value = <<>>]
               /\ log' = [log EXCEPT ![r] =
                            @ \o <<Ev(r, "diff_done", Computed(full, smart), <<>>),
                                   Ev(r, "launch_plain", <<>>, cf[r].buffer)>>]
               /\ UNCHANGED <<fin, stats>>
          ELSE /\ cf' = [cf EXCEPT ![r].computed_hash = full,
                                   ![r].computed_hash_smart_diff = smart,
                                   ![r].task = "none"]
               /\ stats' = [stats EXCEPT
                    ![r].mismatches = IF Differs(full, prior.hash) THEN @ + 1 ELSE @,
                    ![r].matches = IF Differs(full, prior.hash) THEN @ ELSE @ + 1,
                    ![r].smart_diff_mismatches =
                       IF Differs(smart, prior.hash_smart_diff) THEN @ + 1 ELSE @,
                    ![r].smart_diff_matches =
                       IF Differs(smart, prior.hash_smart_diff) THEN @ ELSE @ + 1]
               /\ fin' = [fin EXCEPT ![r].consumer = "want"]
               /\ log' = [log EXCEPT ![r] =
                            @ \o <<Ev(r, "diff_done", Computed(full, smart), <<>>)>>]
  /\ UNCHANGED <<workload, now, opts, request_headers, store, sink, flow, info, page, flushed, async_events, px>>

\* ---- Finish(): the rendezvous of the relay and the consumer -----------------------
Callers == {"relay", "consumer"}

\* A Finish() without its mutex.
CanLock_unguarded(mutex) == TRUE

\* ScopedMutex lock(cache_html_change_mutex_.get())
CanLock(mutex) == mutex = "free"

\* A Finish() in which the first caller goes on as well.
SecondToArrive_always(c) == TRUE

\* if (!finish_) ... : whether this caller is the second to arrive.
SecondToArrive(c) == c.finish

\* A caller takes the mutex and reads finish_.
FinishLock(r, who) ==
  /\ fin[r][who] = "want"
  /\ IF cf[r].st # "alive"
       THEN /\ fin' = [fin EXCEPT ![r][who] = "dangling"]
            /\ UNCHANGED <<cf, log>>
       ELSE /\ CanLock(cf[r].mutex)
            /\ cf' = [cf EXCEPT ![r].mutex = who]
            /\ fin' = [fin EXCEPT ![r][who] = IF SecondToArrive(cf[r]) THEN "second" ELSE "first"]
            /\ log' = [log EXCEPT ![r] = @ \o <<Ev(r, "finish", <<>>, <<who>>)>>]
  /\ UNCHANGED <<workload, now, opts, request_headers, store, sink, flow, info, page, flushed, async_events, px, stats>>

\* The caller leaves the critical section: the first one has set finish_ and
\* returns, the second one goes on to ProcessDiffResult.
FinishUnlock(r, who) ==
  /\ fin[r][who] \in {"first", "second"}
  /\ IF cf[r].st # "alive"
       THEN /\ fin' = [fin EXCEPT ![r][who] = "dangling"]
            /\ UNCHANGED cf
       ELSE IF fin[r][who] = "first"
         THEN /\ cf' = [cf EXCEPT ![r].finish = TRUE, ![r].mutex = "free"]
              /\ fin' = [fin EXCEPT ![r][who] = "returned"]
         ELSE /\ cf' = [cf EXCEPT ![r].mutex = "free"]
              /\ fin' = [fin EXCEPT ![r][who] = "pdr"]
  /\ UNCHANGED <<workload, now, opts, request_headers, store, sink, log, flow, info, page, flushed, async_events, px,
                 stats>>

\* A ProcessDiffResult that compares the smart-diff hash whatever the options
\* say.
MismatchSignal_smart_only(c) == c.computed_hash_smart_diff # c.cache_html_info.hash_smart_diff

\* A ProcessDiffResult that compares the full hash whatever the options say.
MismatchSignal_full_hash(c) == c.computed_hash # c.cache_html_info.hash

\* compute_cache_html_info in ProcessDiffResult
MismatchSignal(c) ==
  IF opts.smart_diff
    THEN c.computed_hash_smart_diff # c.cache_html_info.hash_smart_diff
    ELSE c.computed_hash # c.cache_html_info.hash

AnyHashDiffers(c) ==
  \/ c.computed_hash # c.cache_html_info.hash
  \/ c.computed_hash_smart_diff # c.cache_html_info.hash_smart_diff

\* A ProcessDiffResult that launches the plain computation before it deletes.
OnMismatch_launch_first == <<"launch_plain", "delete", "flush">>

\* What ProcessDiffResult does on a mismatch under active detection, in the
\* order of its calls: DeleteProperty and WriteCohort in
\* DeleteCacheHtmlInfoFromPropertyCache, then
\* CreateCacheHtmlComputationDriverAndRewrite.
OnMismatch == <<"delete", "flush", "launch_plain">>

\* DeleteCacheHtmlInfoFromPropertyCache, then
\* CreateCacheHtmlComputationDriverAndRewrite.
DeleteCacheHtmlInfoFromPropertyCache(r, sofar) ==
  /\ stats' = [stats EXCEPT ![r].cache_deletes = @ + 1]
  /\ page' = [page EXCEPT ![r] = NoValue]
  /\ store' = WriteCohort(store, NoValue)
  /\ log' = [log EXCEPT ![r] =
               sofar \o [i \in 1..Len(OnMismatch) |->
                          Ev(r, OnMismatch[i], <<>>,
                             IF OnMismatch[i] = "launch_plain" THEN cf[r].buffer ELSE <<>>)]]

ProcessDiffResult(r, who) ==
  /\ fin[r][who] = "pdr"
  /\ fin' = [fin EXCEPT ![r][who] = "returned"]
  /\ LET c == cf[r]
         ran == log[r] \o <<Ev(r, "pdr", <<>>, <<who>>)>>
     IN IF c.st # "alive"
          THEN UNCHANGED <<cf, async_events, stats, page, store, log>>
        ELSE IF c.computed_hash = NoHash
          THEN /\ cf' = [cf EXCEPT ![r] = Deleted]
               /\ async_events' = [async_events EXCEPT ![r] = @ - 1]
               /\ DeleteThis(r, ran)
               /\ UNCHANGED stats
        ELSE IF opts.detect /\ MismatchSignal(c)
          THEN /\ DeleteCacheHtmlInfoFromPropertyCache(r, ran)
               /\ cf' = [cf EXCEPT ![r].task = "plain", ![r].value = <<>>]
               /\ UNCHANGED async_events
        ELSE IF opts.detect \/ AnyHashDiffers(c)
          THEN /\ UpdatePropertyCacheWithCacheHtmlInfo(r, c, ran)
               /\ cf' = [cf EXCEPT ![r] = Deleted]
               /\ async_events' = [async_events EXCEPT ![r] = @ - 1]
               /\ UNCHANGED stats
        ELSE /\ cf' = [cf EXCEPT ![r] = Deleted]
             /\ async_events' = [async_events EXCEPT ![r] = @ - 1]
             /\ DeleteThis(r, ran)
             /\ UNCHANGED stats
  /\ UNCHANGED <<workload, now, opts, request_headers, sink, flow, info, flushed, px>>

\* ---- the client side of the ProxyFetch: the relay, or the client sink itself ------
\* A relay that passes the origin's HeadersComplete() on.
InhibitsHeaders_never(fetch) == FALSE

\* AsyncFetchWithHeadersInhibited::HandleHeadersComplete() {}
InhibitsHeaders(fetch) == fetch = "relay"

\* HeadersComplete() on the fetch handed to StartNewProxyFetch.
ClientHeadersComplete(r) ==
  /\ px[r].client = "headers"
  /\ px[r].st \in {"body", "ended"}
  /\ px' = [px EXCEPT ![r].client = "body"]
  /\ sink' = IF InhibitsHeaders(px[r].sink) THEN sink
             ELSE [sink EXCEPT ![r] = @ \o <<Out("origin_headers", <<>>)>>]
  /\ UNCHANGED <<workload, now, opts, request_headers, store, log, flow, info, page, flushed, async_events, cf, fin,
                 stats>>

\* Write() on that fetch: the relay passes it to the client sink.
ClientWrite(r) ==
  /\ px[r].client = "body"
  /\ px' = [px EXCEPT ![r].client = "written"]
  /\ sink' = [sink EXCEPT ![r] = @ \o <<Out("body", <<>>)>>]
  /\ UNCHANGED <<workload, now, opts, request_headers, store, log, flow, info, page, flushed, async_events, cf, fin,
                 stats>>

\* Done() on that fetch, once the origin stream has ended.  The relay's
\* HandleDone forwards it and calls Finish() on the consumer it was given.
ClientDone(r) ==
  /\ px[r].client \in {"headers", "body", "written"}
  /\ px[r].st = "ended"
  /\ px' = [px EXCEPT ![r].client = "done"]
  /\ sink' = [sink EXCEPT ![r] = @ \o <<Out("done", <<>>)>>]
  /\ fin' = [fin EXCEPT ![r].relay =
               IF px[r].sink = "relay" /\ cf[r].st # "none" THEN "want" ELSE @]
  /\ UNCHANGED <<workload, now, opts, request_headers, store, log, flow, info, page, flushed, async_events, cf, stats>>

\* ---- the system ---------------------------------------------------------------------
Next ==
  \/ Tick
  \/ \E r \in Reqs :
       \/ Start(r)
       \/ Cancel(r)
       \/ CacheHtmlLookupDone(r)
       \/ FinishParseCachedHtml(r)
       \/ CacheHtmlRewriteDone(r)
       \/ HandleHeadersComplete(r)
       \/ HandleWrite(r)
       \/ HandleDone(r)
       \/ Parse(r)
       \/ CompleteFinishParseForCacheHtmlComputationDriver(r)
       \/ CancelParseForCacheHtmlComputationDriver(r)
       \/ CompleteFinishParseForHtmlChangeDriver(r)
       \/ CancelParseForHtmlChangeDriver(r)
       \/ ClientHeadersComplete(r)
       \/ ClientWrite(r)
       \/ ClientDone(r)
       \/ \E who \in Callers :
            \/ FinishLock(r, who)
            \/ FinishUnlock(r, who)
            \/ ProcessDiffResult(r, who)

Spec == Init /\ [][Next]_vars

SpecSuccessive == InitSuccessive /\ [][Next]_vars

SpecForeign == InitForeign /\ [][Next]_vars

SpecFromEmpty == InitFromEmpty /\ [][Next]_vars

SpecConcurrent == InitConcurrent /\ [][Next]_vars

\* ---- reading the history -------------------------------------------------------------
\* The request was served from the cache.
Hit(r) == Sent(r, "headers")

\* The relay of a hit was given a consumer.
Attached(r) == px[r].sink = "relay" /\ cf[r].st # "none"

Events(r, kinds) == { i \in 1..Len(log[r]) : log[r][i].ev \in kinds }

FinishCalls(r, who) ==
  { i \in 1..Len(log[r]) : log[r][i].ev = "finish" /\ log[r][i].txt = <<who>> }

StoreEvents == {"update", "delete", "flush"}

Launches == {"launch_diff", "launch_plain"}

Max(S) == CHOOSE x \in S : \A y \in S : y <= x

\* ---- C1 ---------------------------------------------------------------------------------
\* C1: on a hit with a consumer attached, the relay and the consumer each call
\* Finish() at most once; while fewer than two calls have entered, finish_ is
\* all that changes: the consumer lives, ProcessDiffResult has not run, nothing
\* was launched, written, deleted or destroyed after the stream's end;
\* ProcessDiffResult runs at most once, only after both calls, in the call that
\* came second; and when both calls have returned it has run.
C1_FinishRunsProcessDiffResultOnce ==
  \A r \in Reqs :
    Attached(r) =>
      /\ \A who \in Callers : Cardinality(FinishCalls(r, who)) <= 1
      /\ Count(r, "pdr") <= 1
      /\ fin[r].relay # "dangling" /\ fin[r].consumer # "dangling"
      /\ Count(r, "finish") < 2 =>
           /\ cf[r].st = "alive"
           /\ Events(r, {"pdr", "destroy", "launch_plain"} \cup StoreEvents) = {}
      /\ (\E who \in Callers : fin[r][who] = "returned" /\ Count(r, "finish") = 1) =>
           cf[r].finish
      /\ Logged(r, "pdr") =>
           /\ Count(r, "finish") = 2
           /\ Max(Events(r, {"finish"})) < Pos(r, "pdr")
           /\ log[r][Pos(r, "pdr")].txt = log[r][Max(Events(r, {"finish"}))].txt
      /\ (\A who \in Callers : fin[r][who] = "returned") => Count(r, "pdr") = 1

\* The consumer finished its diff first, the relay came second and ran
\* ProcessDiffResult.
C1_Witness ==
  /\ Attached("r1")
  /\ Logged("r1", "pdr")
  /\ log["r1"][Pos("r1", "pdr")].txt = <<"relay">>
  /\ fin["r1"].relay = "returned" /\ fin["r1"].consumer = "returned"

\* The other order: the relay came first, the consumer ran ProcessDiffResult.
C1_WitnessConsumerSecond ==
  /\ Attached("r1")
  /\ Logged("r1", "pdr")
  /\ log["r1"][Pos("r1", "pdr")].txt = <<"consumer">>
  /\ fin["r1"].relay = "returned" /\ fin["r1"].consumer = "returned"

\* ---- C2 ---------------------------------------------------------------------------------
\* C2: on a hit, as long as Done() has not reached the client sink, the
\* request's history holds no delete, no update and no cohort flush.
C2_StoreUntouchedBeforeClientDone ==
  \A r \in Reqs :
    Hit(r) /\ ~Sent(r, "done") => Events(r, StoreEvents) = {}

\* The consumer ended its diff and called Finish() first; the delete waited
\* for the relay's call, which follows Done() on the client sink.
C2_Witness ==
  /\ Hit("r1")
  /\ Logged("r1", "delete")
  /\ log["r1"][Pos("r1", "finish")].txt = <<"consumer">>
  /\ log["r1"][Pos("r1", "pdr")].txt = <<"relay">>
  /\ Sent("r1", "done")

\* ---- C3 ---------------------------------------------------------------------------------
\* Nothing more can happen for the request: it was answered, the stream ended,
\* no task is queued, no caller is inside Finish().
Settled(r) ==
  /\ flow[r] = "gone"
  /\ px[r].st = "ended"
  /\ px[r].client = "done"
  /\ \A who \in Callers : fin[r][who] \in {"no", "returned"}
  /\ cf[r].task = "none"

\* C3: once nothing more can happen for a request, its consumer has been
\* destroyed and the driver's count of async events is back where it was.
C3_SettledConsumerIsDestroyed ==
  \A r \in Reqs :
    Settled(r) => cf[r].st \in {"none", "deleted"} /\ async_events[r] = 0

\* ---- C4 ---------------------------------------------------------------------------------
\* What the lookup of r found: "absent", "expired" or "fresh".
LookedUp(r) == Logged(r, "read")

FoundAs(r) == log[r][Pos(r, "read")].txt[1]

CachedEvents == {"headers", "html", "blink_js", "suffix_js"}

ServedAsMiss(r) ==
  /\ \A i \in 1..Len(sink[r]) : sink[r][i].ev \notin CachedEvents
  /\ stats[r].misses = 1
  /\ stats[r].hits = 0

\* C4 as claimed: a request whose entry is absent or older than the TTL is
\* never served cached content and counts exactly one miss and no hit.
C4_AbsentOrExpiredIsMiss ==
  \A r \in Reqs :
    LookedUp(r) /\ FoundAs(r) \in {"absent", "expired"} => ServedAsMiss(r)

\* C4, amended: the same for an entry that is absent, or older than the TTL
\* while active change detection is off.
C4_AbsentOrExpiredWithoutDetectionIsMiss ==
  \A r \in Reqs :
    LookedUp(r) /\ (FoundAs(r) = "absent" \/ (FoundAs(r) = "expired" /\ ~opts.detect))
      => ServedAsMiss(r)

\* An expired entry, logging-only change detection: missed and passed through.
C4_Witness ==
  /\ LookedUp("r1") /\ FoundAs("r1") = "expired"
  /\ ~opts.detect /\ opts.logging
  /\ Sent("r1", "done")
  /\ stats["r1"].misses = 1

\* ---- C5 ---------------------------------------------------------------------------------
KindOf(e) == e.ev

\* What reached the client sink of r, in order.
Sink(r) == [i \in 1..Len(sink[r]) |-> KindOf(sink[r][i])]

\* The text of the first such write to the client sink.
SentText(r, ev) ==
  sink[r][CHOOSE i \in 1..Len(sink[r]) :
            /\ sink[r][i].ev = ev
            /\ \A j \in 1..(i - 1) : sink[r][j].ev # ev].txt

IsPrefix(a, b) == Len(a) <= Len(b) /\ SubSeq(b, 1, Len(a)) = a

HitResponse == <<"headers", "html", "blink_js", "suffix_js", "sink_flush">>

RecordRead(r) == ParseFromZeroCopyStream(log[r][Pos(r, "read")].val).info

\* C5: a request that finds a fresh entry with change detection off counts one
\* hit and no miss; its client sink gets the 200 headers, then the cached HTML
\* of the record, then the two bootstrap script writes and a flush, each once
\* and in this order, and after them only what the relay passes on.
C5_FreshHitServesCachedHtmlOnce ==
  \A r \in Reqs :
    LookedUp(r) /\ FoundAs(r) = "fresh" /\ ~opts.detect /\ ~opts.logging =>
      /\ stats[r].hits = 1 /\ stats[r].misses = 0
      /\ IsPrefix(Sink(r), HitResponse)
         \/ /\ IsPrefix(HitResponse, Sink(r))
            /\ Logged(r, "dispatch")
            /\ \A i \in (Len(HitResponse) + 1)..Len(Sink(r)) :
                 Sink(r)[i] \in {"body", "done"}
      /\ Sent(r, "headers") /\ SentText(r, "headers")[1] = "200"
      /\ Sent(r, "html") => SentText(r, "html") = RecordRead(r).cached_html
      /\ flow[r] = "gone" => IsPrefix(HitResponse, Sink(r))

C5_Witness ==
  /\ LookedUp("r1") /\ FoundAs("r1") = "fresh" /\ ~opts.detect /\ ~opts.logging
  /\ Sink("r1") = HitResponse \o <<"body", "done">>
  /\ stats["r1"].hits = 1

\* ---- C6 ---------------------------------------------------------------------------------
\* A value that is one whole serialized record.
WholeRecord(v) ==
  LET parsed == ParseFromZeroCopyStream(v)
  IN parsed.ok /\ parsed.info.has_cached_html /\ SerializeToString(parsed.info) = v

WrittenAtOnce(v) ==
  \E r \in Reqs : \E i \in Events(r, {"update"}) : log[r][i].val = v

NothingFlushedYet == \A r \in Reqs : Events(r, {"flush"}) = {}

\* The first launch of a plain computation after position i of r's history.
PlainLaunchedAfter(r, i) ==
  \E j \in Events(r, {"launch_plain"}) : j > i

\* C6: a delete is followed by its flush, and the plain computation is
\* launched only after both; the store holds no value, or one whole record
\* that a single update serialized (or that was there from the start).
C6_DeleteBeforeRecomputeNoTornRecord ==
  /\ \A r \in Reqs :
       /\ \A i \in Events(r, {"delete"}) :
            /\ i < Len(log[r]) /\ log[r][i + 1].ev = "flush"
            /\ \A j \in Events(r, {"launch_plain"}) : j > i + 1
       /\ Count(r, "delete") = stats[r].cache_deletes
       /\ Logged(r, "delete") => opts.detect /\ Hit(r) /\ Logged(r, "pdr")
  /\ store.has_value =>
       /\ WholeRecord(store.value)
       /\ NothingFlushedYet \/ WrittenAtOnce(store.value)

\* The record was deleted, recomputed and written again.
C6_Witness ==
  /\ Logged("r1", "delete")
  /\ Logged("r1", "update")
  /\ store.has_value
  /\ store.value # log["r1"][Pos("r1", "read")].val

\* ---- C7 ---------------------------------------------------------------------------------
\* The hashes r's diff computation ended with, and the record r had read.
FullHash(r) == log[r][Pos(r, "diff_done")].val[1].num

SmartHash(r) == log[r][Pos(r, "diff_done")].val[2].num

\* The hash the options tell ProcessDiffResult to compare differs.
ComparedHashDiffers(r) ==
  IF opts.smart_diff
    THEN SmartHash(r) # RecordRead(r).hash_smart_diff
    ELSE FullHash(r) # RecordRead(r).hash

NoDelete(r) == ~Logged(r, "delete") /\ stats[r].cache_deletes = 0

DeletedThenRelaunched(r) ==
  /\ Count(r, "delete") = 1 /\ stats[r].cache_deletes = 1
  /\ PlainLaunchedAfter(r, Pos(r, "delete"))
  /\ \A i \in Events(r, {"update"}) : i > Pos(r, "delete")

\* Requests arrive one after the other: q looked up after r was answered.
Later(q, r) == r = "r1" /\ q = "r2" /\ LookedUp(q)

\* What the lookup of q got from the store.
ValueRead(r) == log[r][Pos(r, "read")].val

SeesMissOrRefreshed(q, r) ==
  \/ ValueRead(q) = <<>>
  \/ /\ Logged(r, "update")
     /\ ValueRead(q) = log[r][Pos(r, "update")].val
     /\ ValueRead(q) # ValueRead(r)

Diffed(r) == Hit(r) /\ Logged(r, "diff_done") /\ Logged(r, "pdr")

C7_WitnessMiss ==
  /\ Diffed("r1") /\ ComparedHashDiffers("r1")
  /\ cf["r1"].task = "plain"
  /\ LookedUp("r2")
  /\ ValueRead("r2") = <<>>
  /\ stats["r2"].misses = 1

\* Identical content: both match counters, no delete.
C7_WitnessMatch ==
  /\ Diffed("r1")
  /\ FullHash("r1") = RecordRead("r1").hash
  /\ SmartHash("r1") = RecordRead("r1").hash_smart_diff
  /\ stats["r1"].matches = 1

\* ---- C8 ---------------------------------------------------------------------------------
\* C8: a request's consumer flushes the cohort at most once.
C8_AtMostOneCohortFlush ==
  \A r \in Reqs : Count(r, "flush") <= 1

\* ---- C9 ---------------------------------------------------------------------------------
\* C9: the buffer never holds more than the maximum rewritable size; from the
\* moment the over-threshold flag is set the flag stays set and the buffer is
\* empty, the stream can still deliver its remaining chunks, and the request
\* makes no store write.
C9_BufferBoundedAndAbandoned ==
  \A r \in Reqs :
    /\ Len(cf[r].buffer) <= MaxHtmlSize
    /\ Logged(r, "over_threshold") =>
         /\ cf[r].st = "alive" =>
              cf[r].content_length_over_threshold /\ cf[r].buffer = <<>>
         /\ px[r].st = "body" /\ px[r].body # <<>> => ENABLED HandleWrite(r)
         /\ Events(r, StoreEvents \cup Launches) = {}

\* A chunk pushed the buffer past the limit while more of the body was still
\* to come, and the rest of the body has been taken since.
C9_Witness ==
  /\ Logged("r1", "over_threshold")
  /\ log["r1"][Pos("r1", "over_threshold")].txt # <<>>
  /\ cf["r1"].st = "alive"
  /\ cf["r1"].html_detector.decided /\ cf["r1"].probable_html
  /\ cf["r1"].buffer = <<>>
  /\ px["r1"].st = "body" /\ px["r1"].body = <<>>

\* The declared content length set the flag before any chunk.
C9_WitnessDeclaredLength ==
  /\ Logged("r1", "over_threshold")
  /\ cf["r1"].st = "alive"
  /\ ~cf["r1"].html_detector.decided
  /\ px["r1"].st = "body" /\ px["r1"].body = <<>>

\* ---- C10 --------------------------------------------------------------------------------
EndedIneligible(r) ==
  /\ Logged(r, "stream_end")
  /\ log[r][Pos(r, "stream_end")].txt # <<>>

\* C10: after a stream end with a failure, a non-200 status, content that is
\* not HTML or the threshold exceeded, the request launches no computation
\* and makes no update, delete or flush; a consumer whose record has cached
\* HTML has called Finish() and is destroyed only by ProcessDiffResult, any
\* other consumer is destroyed in the same step.
C10_IneligibleStreamEnd ==
  \A r \in Reqs :
    EndedIneligible(r) =>
      /\ Events(r, StoreEvents \cup Launches) = {}
      /\ IF Hit(r)
           THEN /\ fin[r].consumer # "no"
                /\ Logged(r, "destroy") =>
                     Logged(r, "pdr") /\ Pos(r, "destroy") = Pos(r, "pdr") + 1
                /\ ~Logged(r, "pdr") => cf[r].st = "alive"
           ELSE /\ fin[r].consumer = "no"
                /\ cf[r].st = "deleted"
                /\ Pos(r, "destroy") = Pos(r, "stream_end") + 1

\* A hit whose origin stream failed: the consumer went through Finish().
C10_Witness ==
  /\ EndedIneligible("r1")
  /\ Hit("r1")
  /\ "failed" \in Range(log["r1"][Pos("r1", "stream_end")].txt)
  /\ Logged("r1", "pdr")
  /\ cf["r1"].st = "deleted"

\* A miss whose origin answered with a non-200 status.
C10_WitnessMiss ==
  /\ EndedIneligible("r1")
  /\ ~Hit("r1")
  /\ "non_ok" \in Range(log["r1"][Pos("r1", "stream_end")].txt)
  /\ cf["r1"].st = "deleted"
\* ---- C11 --------------------------------------------------------------------------------
\* The flow holds the record it read, and counted a hit.
KeptAsHit(r) ==
  /\ info[r] = RecordRead(r)
  /\ stats[r].hits = 1 /\ stats[r].misses = 0

\* The flow holds an empty record, and the request went the way of a miss.
TreatedAsAbsent(r) == info[r] = EmptyInfo /\ ServedAsMiss(r)

\* C11 as claimed: a record older than the TTL is treated as absent unless
\* change detection, live or logging-only, is enabled, and then it is kept and
\* served as a hit; a record no older than the TTL is kept.
C11_ExpiredDroppedUnlessAnyDetection ==
  \A r \in Reqs :
    LookedUp(r) =>
      /\ FoundAs(r) = "expired" =>
           IF opts.detect \/ opts.logging THEN KeptAsHit(r) ELSE TreatedAsAbsent(r)
      /\ FoundAs(r) = "fresh" => info[r] = RecordRead(r)

\* C11, amended: the same, where only active change detection keeps a record
\* older than the TTL; under logging-only detection it is treated as absent.
C11_ExpiredDroppedUnlessActiveDetection ==
  \A r \in Reqs :
    LookedUp(r) =>
      /\ FoundAs(r) = "expired" =>
           IF opts.detect THEN KeptAsHit(r) ELSE TreatedAsAbsent(r)
      /\ FoundAs(r) = "fresh" => info[r] = RecordRead(r)

\* A record older than the TTL was kept under active detection, and its
\* cached HTML has been written to the client sink.
C11_Witness ==
  /\ LookedUp("r1") /\ FoundAs("r1") = "expired"
  /\ opts.detect
  /\ KeptAsHit("r1")
  /\ Sent("r1", "html")

\* A record exactly as old as the TTL was kept with change detection off.
C11_WitnessAtTtl ==
  /\ LookedUp("r1") /\ FoundAs("r1") = "fresh"
  /\ ~opts.detect /\ ~opts.logging
  /\ RecordRead("r1").last_ms + BlinkCacheTime <= now
  /\ flow["r1"] = "replay"
  /\ KeptAsHit("r1")

C13_MalformedIsClearedAndMissed ==
  \A r \in Reqs :
    LookedUp(r) /\ FoundAs(r) = "malformed" =>
      /\ info[r] = EmptyInfo
      /\ ServedAsMiss(r)
      /\ flow[r] = "gone"
      /\ Count(r, "dispatch") = 1
      /\ px[r].st # "none" /\ px[r].sink = "base"
      /\ cf[r].st = "alive" => cf[r].cache_html_info = EmptyInfo
      /\ px[r].client = "done" =>
           Sink(r) \in {<<"done">>, <<"origin_headers", "done">>,
                        <<"origin_headers", "body", "done">>}

\* The value did not parse after some fields had been merged, and the request
\* was served from the origin to the end.
C13_Witness ==
  /\ LookedUp("r1") /\ FoundAs("r1") = "malformed"
  /\ ParseFromZeroCopyStream(ValueRead("r1")).info.has_cached_html
  /\ Sink("r1") = <<"origin_headers", "body", "done">>

\* ---- C14 --------------------------------------------------------------------------------
\* The lookup of r was cancelled: its flow is gone and never read the store.
Cancelled(r) == flow[r] = "gone" /\ ~LookedUp(r)

\* C14: a request whose lookup was cancelled has written nothing to the client
\* sink, counted nothing, dispatched no origin fetch and created no consumer.
C14_CancelledLookupDoesNothing ==
  \A r \in Reqs :
    Cancelled(r) =>
      /\ sink[r] = <<>>
      /\ stats[r] = NoStats
      /\ log[r] = <<>>
      /\ px[r] = NoFetch
      /\ cf[r] = NoConsumer /\ async_events[r] = 0
      /\ fin[r] = NoFinish
      /\ info[r] = EmptyInfo /\ page[r] = NoValue

\* The lookup was cancelled while the store held a record that would have
\* been a hit, and time has passed since.
C14_Witness ==
  /\ Cancelled("r1")
  /\ store.has_value
  /\ now > 0

\* ---- C15 --------------------------------------------------------------------------------
\* C15: StartNewProxyFetch is called at most once for a request, in the step
\* in which the flow is destroyed and in no other; a flow whose lookup
\* completed is either replaying cached HTML, with its next step ready, or
\* gone with exactly one dispatch; on a hit the dispatch comes when the headers,
\* the cached HTML, both scripts and the flush have reached the client sink.
C15_OneDispatchAfterReplay ==
  \A r \in Reqs :
    /\ Count(r, "dispatch") <= 1
    /\ Logged(r, "dispatch") <=> (LookedUp(r) /\ flow[r] = "gone")
    /\ px[r].st # "none" <=> Logged(r, "dispatch")
    /\ LookedUp(r) =>
         /\ flow[r] \in {"replay", "replayed", "gone"}
         /\ ~Hit(r) => Count(r, "dispatch") = 1
         /\ flow[r] = "replay" => ENABLED FinishParseCachedHtml(r)
         /\ flow[r] = "replayed" => ENABLED CacheHtmlRewriteDone(r)
         /\ Hit(r) /\ Logged(r, "dispatch") =>
              /\ IsPrefix(HitResponse, Sink(r))
              /\ flushed[r]
              /\ px[r].sink = "relay"

\* A fresh entry with change detection off: after the replay the origin fetch
\* was dispatched all the same, with a relay and without a consumer.
C15_Witness ==
  /\ LookedUp("r1") /\ FoundAs("r1") = "fresh"
  /\ ~opts.detect /\ ~opts.logging
  /\ Hit("r1")
  /\ Count("r1", "dispatch") = 1
  /\ px["r1"].sink = "relay" /\ cf["r1"].st = "none"
  /\ px["r1"].st = "ended"

\* ---- C16 --------------------------------------------------------------------------------
\* How many times ev reached the client sink of r.
SentCount(r, ev) == Cardinality({ i \in 1..Len(sink[r]) : sink[r][i].ev = ev })

\* C16: on a hit the client sink's history starts with the flow's
\* HeadersComplete, holds it once and never the origin's; it holds Done at most
\* once, as its last entry, and exactly once when the relay has handled Done.
C16_HitHeadersOnceDoneOnce ==
  \A r \in Reqs :
    Hit(r) =>
      /\ sink[r][1].ev = "headers"
      /\ SentCount(r, "headers") = 1
      /\ SentCount(r, "origin_headers") = 0
      /\ SentCount(r, "done") <= 1
      /\ Sent(r, "done") => sink[r][Len(sink[r])].ev = "done"
      /\ px[r].client = "done" <=> SentCount(r, "done") = 1
      /\ fin[r].relay # "no" => Sent(r, "done")

\* A hit whose origin stream delivered headers and body: the client sink got
\* the body and Done from the relay, and headers only from the flow.
C16_Witness ==
  /\ Hit("r1")
  /\ Sink("r1") = HitResponse \o <<"body", "done">>
  /\ px["r1"].sink = "relay"
  /\ fin["r1"].relay = "returned"

\* ---- C17 --------------------------------------------------------------------------------
\* C17: a request with a prior record whose diff computation completed has
\* counted one of match and mismatch for the full hash and one of match and
\* mismatch for the smart-diff hash, a match exactly when the computed hash
\* equals the stored one, each independently of the other; any other request
\* has counted none of the four.
C17_OneCounterPerComparison ==
  \A r \in Reqs :
    IF Hit(r) /\ Logged(r, "diff_done")
      THEN /\ stats[r].matches + stats[r].mismatches = 1
           /\ stats[r].smart_diff_matches + stats[r].smart_diff_mismatches = 1
           /\ stats[r].matches = 1 <=> FullHash(r) = RecordRead(r).hash
           /\ stats[r].smart_diff_matches = 1 <=>
                SmartHash(r) = RecordRead(r).hash_smart_diff
      ELSE /\ stats[r].matches = 0 /\ stats[r].mismatches = 0
           /\ stats[r].smart_diff_matches = 0 /\ stats[r].smart_diff_mismatches = 0

\* The two comparisons went different ways: the full hash differs, the
\* smart-diff hash is equal.
C17_Witness ==
  /\ Hit("r1") /\ Logged("r1", "diff_done")
  /\ stats["r1"].mismatches = 1
  /\ stats["r1"].smart_diff_matches = 1

\* The extraction did not have two segments: no hash was computed, and both
\* comparisons count a mismatch.
C17_WitnessNoHash ==
  /\ Hit("r1") /\ Logged("r1", "diff_done")
  /\ FullHash("r1") = NoHash
  /\ stats["r1"].mismatches = 1 /\ stats["r1"].smart_diff_mismatches = 1

\* ---- C18 --------------------------------------------------------------------------------
\* C18: once the origin fetch of a request has been dispatched, on the hit
\* path and on the miss path, the request headers it carries hold neither
\* If-None-Match nor If-Modified-Since.
C18_NoConditionalHeadersToOrigin ==
  \A r \in Reqs :
    Logged(r, "dispatch") =>
      /\ "If-None-Match" \notin request_headers[r]
      /\ "If-Modified-Since" \notin request_headers[r]

\* A hit whose client sent If-Modified-Since along with Accept: the origin
\* fetch carries Accept alone.
C18_Witness ==
  /\ Hit("r1")
  /\ Logged("r1", "dispatch")
  /\ request_headers["r1"] = {"Accept"}

\* The same on the miss path.
C18_WitnessMiss ==
  /\ LookedUp("r1") /\ ~Hit("r1")
  /\ Logged("r1", "dispatch")
  /\ request_headers["r1"] = {"Accept"}

\* ---- C19 --------------------------------------------------------------------------------
\* The full hash r's consumer holds when ProcessDiffResult runs.
ComputedFull(r) == IF Logged(r, "diff_done") THEN FullHash(r) ELSE NoHash

\* What r's history holds after ProcessDiffResult was entered.
SincePdr(r) ==
  [i \in 1..(Len(log[r]) - Pos(r, "pdr")) |-> log[r][Pos(r, "pdr") + i].ev]

\* The branch the inputs call for: "none" (no hash computed), "a" (delete and
\* recompute), "b" (update), "c" (nothing to write).
Branch(r) ==
  IF ComputedFull(r) = NoHash THEN "none"
  ELSE IF opts.detect /\ ComparedHashDiffers(r) THEN "a"
  ELSE IF \/ opts.detect
          \/ FullHash(r) # RecordRead(r).hash
          \/ SmartHash(r) # RecordRead(r).hash_smart_diff THEN "b"
  ELSE "c"

\* C19: after ProcessDiffResult, by the branch its inputs call for: no hash
\* computed, or both hashes equal without active detection: the consumer is
\* destroyed and the history holds no store event; (a): delete, flush, launch
\* of the plain computation, in this order, the consumer alive until that
\* computation ends; (b): one update, its flush, the consumer destroyed, the
\* store holding what the update wrote.
C19_ProcessDiffResultBranches ==
  \A r \in Reqs :
    Logged(r, "pdr") =>
      /\ Hit(r)
      /\ Branch(r) \in {"none", "c"} =>
           /\ SincePdr(r) = <<"destroy">>
           /\ Events(r, StoreEvents \cup {"launch_plain"}) = {}
           /\ cf[r].st = "deleted"
           /\ store = Value(ValueRead(r))
      /\ Branch(r) = "a" =>
           /\ IsPrefix(<<"delete", "flush", "launch_plain">>, SincePdr(r))
           /\ stats[r].cache_deletes = 1
           /\ Len(SincePdr(r)) = 3 => cf[r].st = "alive" /\ store = NoValue
      /\ Branch(r) = "b" =>
           /\ SincePdr(r) = <<"update", "flush", "destroy">>
           /\ stats[r].cache_deletes = 0
           /\ cf[r].st = "deleted"
           /\ store = Value(log[r][Pos(r, "update")].val)

\* Logging-only detection, both hashes equal: nothing written.
C19_Witness ==
  /\ Logged("r1", "pdr")
  /\ Branch("r1") = "c"
  /\ opts.logging /\ ~opts.detect
  /\ cf["r1"].st = "deleted"

\* Branch (a).
C19_WitnessDelete ==
  /\ Logged("r1", "pdr") /\ Branch("r1") = "a" /\ store = NoValue

\* Branch (b) under logging-only detection, the smart-diff hash equal and the
\* full hash different.
C19_WitnessUpdate ==
  /\ Logged("r1", "pdr") /\ Branch("r1") = "b"
  /\ ~opts.detect
  /\ SmartHash("r1") = RecordRead("r1").hash_smart_diff

\* No hash computed: the stream ended ineligible.
C19_WitnessNoHash ==
  /\ Logged("r1", "pdr") /\ Branch("r1") = "none"
  /\ ~Logged("r1", "diff_done")

\* ---- C20 --------------------------------------------------------------------------------
\* The record r's update serialized, and when.
Written(r) == ParseFromZeroCopyStream(log[r][Pos(r, "update")].val).info

WrittenAt(r) == log[r][Pos(r, "update")].txt[1]

\* The charset of the origin's response to r.
ResponseCharset(r) == log[r][Pos(r, "response")].txt[1]

\* C20: the record written by the update branch of ProcessDiffResult carries
\* the hashes the diff computed, the charset of the origin's response and, as
\* its timestamp, the time of the update.
C20_UpdateBranchRecord ==
  \A r \in Reqs :
    Logged(r, "pdr") /\ Branch(r) = "b" =>
      /\ Written(r).hash = FullHash(r)
      /\ Written(r).hash_smart_diff = SmartHash(r)
      /\ Written(r).has_charset /\ Written(r).charset = ResponseCharset(r)
      /\ Written(r).last_ms = WrittenAt(r)

\* The same without the timestamp: the hashes and the charset are the new
\* ones, the cached HTML and the timestamp are those of the record read.
C20_UpdateBranchKeepsTimestamp ==
  \A r \in Reqs :
    Logged(r, "pdr") /\ Branch(r) = "b" =>
      /\ Written(r).hash = FullHash(r)
      /\ Written(r).hash_smart_diff = SmartHash(r)
      /\ Written(r).has_charset /\ Written(r).charset = ResponseCharset(r)
      /\ Written(r).last_ms = RecordRead(r).last_ms
      /\ Written(r).cached_html = RecordRead(r).cached_html

\* ---- C21 --------------------------------------------------------------------------------
EndedEligible(r) ==
  /\ Logged(r, "stream_end")
  /\ log[r][Pos(r, "stream_end")].txt = <<>>

\* The buffered bytes a computation of r was launched over.
LaunchedOver(r, ev) == log[r][Pos(r, ev)].txt

\* The computations of r's consumer that were launched and have not ended: a
\* diff ends when it completes or is shed, a plain computation ends with the
\* consumer.
EndedPlain(r) ==
  { i \in Events(r, {"destroy"}) : \E j \in Events(r, {"launch_plain"}) : j < i }

InFlight(r) ==
  Cardinality(Events(r, Launches))
    - Cardinality(Events(r, {"diff_done", "diff_shed"}))
    - Cardinality(EndedPlain(r))

\* C21: an eligible stream end launches, in the same step, the diff
\* computation if change detection is on, live or logging-only, and the plain
\* computation otherwise, and nothing else; a diff that completes for a
\* consumer without a prior record launches, in the same step, the plain
\* computation over the bytes the diff was launched over, and the record that
\* computation persists carries the hashes the diff ended with; a consumer
\* launches each computation at most once and never has two in flight.
C21_OnePipelineAtATime ==
  \A r \in Reqs :
    /\ EndedEligible(r) =>
         LET e == Pos(r, "stream_end")
         IN /\ Len(log[r]) > e
            /\ log[r][e + 1].ev = (IF opts.detect \/ opts.logging
                                     THEN "launch_diff" ELSE "launch_plain")
            /\ Len(log[r]) > e + 1 => log[r][e + 2].ev \notin Launches
    /\ Logged(r, "launch_diff") => EndedEligible(r)
    /\ Logged(r, "diff_done") /\ ~Hit(r) =>
         LET d == Pos(r, "diff_done")
         IN /\ Len(log[r]) > d
            /\ log[r][d + 1].ev = "launch_plain"
            /\ LaunchedOver(r, "launch_plain") = LaunchedOver(r, "launch_diff")
            /\ Logged(r, "update") =>
                 /\ Written(r).hash = FullHash(r)
                 /\ Written(r).hash_smart_diff = SmartHash(r)
    /\ Count(r, "launch_diff") <= 1 /\ Count(r, "launch_plain") <= 1
    /\ InFlight(r) \in {0, 1}
    /\ InFlight(r) = 1 <=>
         cf[r].st = "alive" /\ cf[r].task \in {"diff", "diff_parsed", "plain", "plain_parsed"}

\* A miss under logging-only detection: the diff completed, the plain
\* computation followed and persisted a record with the computed hashes.
C21_Witness ==
  /\ ~opts.detect /\ opts.logging
  /\ ~Hit("r1")
  /\ Logged("r1", "diff_done") /\ FullHash("r1") # NoHash
  /\ Logged("r1", "update")
  /\ store = Value(SerializeToString(Written("r1")))

\* No change detection: the plain computation launched at the stream's end.
C21_WitnessPlain ==
  /\ ~opts.detect /\ ~opts.logging
  /\ EndedEligible("r1")
  /\ InFlight("r1") = 1

\* ---- C22 --------------------------------------------------------------------------------
\* The rewritten output r's plain computation ended with.
Rewritten(r) == log[r][Pos(r, "plain_done")].txt

\* The record the store holds.
Stored == ParseFromZeroCopyStream(store.value).info

\* C22: a plain computation that completes persists a record if and only if
\* its rewritten output is not empty and the size threshold was not exceeded;
\* the record holds that output and, as its timestamp, the time of the write;
\* and whatever the store holds is a record with cached HTML that is not empty.
C22_PlainPersistsNonEmptyOnly ==
  /\ \A r \in Reqs :
       Logged(r, "plain_done") =>
         LET p == Pos(r, "plain_done")
         IN /\ Len(log[r]) > p
            /\ log[r][p + 1].ev = "update" <=>
                 Rewritten(r) # <<>> /\ ~Logged(r, "over_threshold")
            /\ log[r][p + 1].ev = "update" =>
                 LET rec == ParseFromZeroCopyStream(log[r][p + 1].val).info
                 IN /\ rec.has_cached_html /\ rec.cached_html = Rewritten(r)
                    /\ rec.last_ms = log[r][p + 1].txt[1]
            /\ log[r][p + 1].ev # "update" =>
                 log[r][p + 1].ev = "destroy" /\ Events(r, {"update"}) = {}
  /\ store.has_value => Stored.has_cached_html /\ Stored.cached_html # <<>>

\* Starting from an empty store, the plain computation of the first request
\* wrote a record at a time later than 0, and the next request was served it.
C22_Witness ==
  /\ Logged("r1", "read") /\ FoundAs("r1") = "absent"
  /\ Logged("r1", "plain_done") /\ Logged("r1", "update")
  /\ store.has_value /\ Stored.last_ms > 0
  /\ Sent("r2", "html") /\ SentText("r2", "html") = Rewritten("r1")

\* The rewritten output was empty: nothing persisted.
C22_WitnessEmpty ==
  /\ Logged("r1", "plain_done") /\ Rewritten("r1") = <<>>
  /\ cf["r1"].st = "deleted"

\* ---- C23 --------------------------------------------------------------------------------
\* What may follow the entry into ProcessDiffResult up to the consumer's
\* destruction: the destruction itself, an update, or a delete and the plain
\* computation it launches.
PdrPaths ==
  { <<"destroy">>,
    <<"update", "flush", "destroy">>,
    <<"delete", "flush", "launch_plain", "destroy">>,
    <<"delete", "flush", "launch_plain", "plain_done", "destroy">>,
    <<"delete", "flush", "launch_plain", "plain_done", "update", "flush", "destroy">> }

\* C23: on a hit with a consumer attached, the consumer is alive whenever a
\* caller is inside Finish(), and as long as the relay has not called it; it is
\* destroyed once at most, after ProcessDiffResult, which ran after the
\* relay's call, and what lies between is one of the paths ProcessDiffResult
\* opens; no caller of Finish() ever finds the consumer destroyed.
C23_ConsumerOutlivesRelay ==
  \A r \in Reqs :
    Attached(r) =>
      /\ \A who \in Callers : fin[r][who] # "dangling"
      /\ \A who \in Callers :
           fin[r][who] \in {"want", "first", "second", "pdr"} => cf[r].st = "alive"
      /\ FinishCalls(r, "relay") = {} => cf[r].st = "alive"
      /\ Count(r, "destroy") <= 1
      /\ cf[r].st = "deleted" <=> Logged(r, "destroy")
      /\ Logged(r, "destroy") =>
           /\ Logged(r, "pdr")
           /\ \E i \in FinishCalls(r, "relay") : i < Pos(r, "pdr")
           /\ \E i \in FinishCalls(r, "consumer") : i < Pos(r, "pdr")
           /\ SincePdr(r) \in PdrPaths

\* The origin stream failed, the consumer called Finish() first, the relay
\* second, and the consumer went in the relay's ProcessDiffResult.
C23_Witness ==
  /\ Attached("r1")
  /\ Logged("r1", "stream_end") /\ Logged("r1", "pdr")
  /\ "failed" \in Range(log["r1"][Pos("r1", "stream_end")].txt)
  /\ log["r1"][Pos("r1", "pdr")].txt = <<"relay">>
  /\ cf["r1"].st = "deleted"

\* The diff was shed, the relay called Finish() first.
C23_WitnessShed ==
  /\ Attached("r1")
  /\ Logged("r1", "diff_shed") /\ Logged("r1", "pdr")
  /\ log["r1"][Pos("r1", "pdr")].txt = <<"consumer">>
  /\ cf["r1"].st = "deleted"

\* The diff completed, and the consumer went with the plain computation that
\* ProcessDiffResult launched.
C23_WitnessRecomputed ==
  /\ Attached("r1")
  /\ Logged("r1", "diff_done") /\ Logged("r1", "pdr")
  /\ SincePdr("r1") = <<"delete", "flush", "launch_plain", "destroy">>

\* ---- C24 --------------------------------------------------------------------------------
Armed(r) == cf[r].st # "none"

\* C24: a request has no consumer before its dispatch; from the dispatch on it
\* has one if it is a miss, or a hit with change detection on, live or
\* logging-only, and none otherwise; a miss goes to the origin with the client
\* sink itself, a hit with the relay; a hit with change detection off never
\* calls Finish(), launches nothing, and neither writes to nor deletes from
\* the store, which holds what the request read.
C24_ConsumerArmedOnMissOrDetection ==
  \A r \in Reqs :
    /\ ~Logged(r, "dispatch") => ~Armed(r) /\ px[r].st = "none"
    /\ Logged(r, "dispatch") =>
         /\ Armed(r) <=> (~Hit(r) \/ opts.detect \/ opts.logging)
         /\ px[r].sink = (IF Hit(r) THEN "relay" ELSE "base")
         /\ Hit(r) /\ ~opts.detect /\ ~opts.logging =>
              /\ fin[r] = NoFinish
              /\ async_events[r] = 0
              /\ Events(r, StoreEvents \cup Launches \cup {"finish", "pdr"}) = {}
              /\ store = Value(ValueRead(r))

\* A hit with change detection off, answered through the relay.
C24_Witness ==
  /\ Hit("r1") /\ ~opts.detect /\ ~opts.logging
  /\ Logged("r1", "dispatch")
  /\ px["r1"].sink = "relay" /\ px["r1"].st = "ended"
  /\ Sent("r1", "done")
  /\ ~Armed("r1")

\* A hit under logging-only detection: a consumer was armed.
C24_WitnessArmed ==
  /\ Hit("r1") /\ ~opts.detect /\ opts.logging
  /\ Logged("r1", "dispatch")
  /\ Armed("r1")

\* ---- C25 --------------------------------------------------------------------------------
LoggingOnly == opts.logging /\ ~opts.detect

\* The record r read, with the hashes and the charset of this update.
Refreshed(r, rec) ==
  [RecordRead(r) EXCEPT !.hash = rec.hash, !.hash_smart_diff = rec.hash_smart_diff,
                        !.has_charset = rec.has_charset, !.charset = rec.charset]

\* C25: under logging-only detection no step deletes from the store, and a
\* step of a hit request leaves the cached HTML of the stored record as it
\* was: if it changes the store at all, it replaces the hashes and the
\* charset of the record the request read.
C25_LoggingOnlyHitKeepsCachedHtml ==
  [][LoggingOnly =>
       /\ store.has_value => store'.has_value
       /\ \A r \in Reqs :
            Hit(r) /\ log'[r] # log[r] /\ store' # store =>
              /\ Stored'.cached_html = Stored.cached_html
              /\ Stored' = Refreshed(r, Stored')]_vars

\* The same for what a hit request writes, whatever the store holds by then:
\* no delete, and every update is the record the request read with other
\* hashes and charset.
C25_LoggingOnlyHitWritesBackItsRecord ==
  LoggingOnly =>
    \A r \in Reqs :
      /\ ~Logged(r, "delete") /\ stats[r].cache_deletes = 0
      /\ Hit(r) =>
           \A i \in Events(r, {"update"}) :
             LET rec == ParseFromZeroCopyStream(log[r][i].val).info
             IN rec = Refreshed(r, rec)

\* ---- C26 --------------------------------------------------------------------------------
\* Two hits that read the same record, r having deleted it since.
ReadBeforeDeleteBy(q, r) ==
  /\ q # r
  /\ Hit(q) /\ Hit(r)
  /\ ValueRead(q) = ValueRead(r)
  /\ Logged(r, "delete")

\* C26: under active detection, once one of two hits that read the same
\* record has deleted it on a mismatch, no update of the other one writes a
\* record with the cached HTML they read.
C26_NoStaleWriteBack ==
  [][opts.detect =>
       \A q \in Reqs : \A r \in Reqs :
         ReadBeforeDeleteBy(q, r) /\ Count(q, "update")' > Count(q, "update") =>
           Stored'.cached_html # RecordRead(q).cached_html]_vars

\* The store after such a write: it holds again the cached HTML that was
\* deleted, while the request that deleted it has recomputed another.
StaleRecordRestored ==
  \E q \in Reqs : \E r \in Reqs :
    /\ ReadBeforeDeleteBy(q, r)
    /\ Logged(r, "plain_done") /\ Rewritten(r) # RecordRead(r).cached_html
    /\ store.has_value /\ Stored.cached_html = RecordRead(q).cached_html

====
